---- MODULE Spec2Model ----
(***************************************************************************)
(* MarketLens Mobile: the asynchronous orchestration slice.                *)
(*                                                                         *)
(*   src/js/research.js  job tracker: createJob, pollForCompletion,        *)
(*                       streamJobStatus, completeJob, startResearch       *)
(*   src/state.js        state.jobs / addJob / updateJob, and (second      *)
(*                       half of the file) the chat session: histories,    *)
(*                       sendDocChat, sendWorkspaceChat                    *)
(*   src/api.js          VertesiaAPI: getAuthToken, call, streamResponse   *)
(*                                                                         *)
(* Each component has its own next-state relation and specification over   *)
(* the shared variables; a component's specification leaves the other      *)
(* components' variables at their initial values.                          *)
(***************************************************************************)
EXTENDS Integers, Sequences, FiniteSets, TLC

(***************************************************************************)
(* Bounds of the model (not program constants).                            *)
(***************************************************************************)
\* run-status queries of one job that may be awaiting their response at once
\* (setInterval does not wait for the async callback of the previous tick)
MaxInFlight == 1
\* completeJob invocations followed per job
MaxCompletions == 2
\* characters of one stream body, and of one chunk of it
MaxBody == 5
MaxChunk == 2
\* direct addMessage calls per context key (more than the history holds)
MaxAppends == 22
\* chat turns started in one behaviour
MaxTurns == 2
\* `answer` events with a message followed per stream of a chat turn
MaxTurnAnswers == 2
\* calls into the API client in one behaviour, and advances of its clock
MaxCalls == 2
MaxAdvances == 2
\* tokens in a message given to extractAnswer
MaxMessage == 4

(***************************************************************************)
(* Program constants.                                                      *)
(***************************************************************************)
\* research.js:183  const MAX_ATTEMPTS = 120
MAX_ATTEMPTS == 120
\* state.js:273-274  length > 20, slice(-20)
HISTORY_LIMIT == 20
\* api.js:36  Date.now() < this.jwtExpiry - 60000
SKEW == 60000
\* api.js:45  this.jwtExpiry = Date.now() + 3500000
LIFETIME == 3500000

NULL == "null"

VARIABLES
    \* ---- state.js: connection ----
    liveMode,        \* state.liveMode
    api,             \* state.api is set (TRUE) or null (FALSE)
    \* ---- research.js / state.js: job tracker ----
    jobs,            \* state.jobs, newest first (addJob unshifts)
    nextJobId,       \* _nextJobId
    attempts,        \* pollForCompletion's `attempts`, per job id
    interval,        \* pollForCompletion's setInterval handle is live, per job id
    pollInFlight,    \* getRunStatus calls of the job awaiting their response
    stream,          \* streamJobStatus of the job: "none" | "open" | "ended"
    demoTimer,       \* the 8 s setTimeout of a demo job is pending
    loading,         \* completeJob invocations awaiting loadAllObjects
    membering,       \* completeJob invocations awaiting getCollectionMembers
    completeCalls,   \* history: number of completeJob invocations, per job id
    loadCalls,       \* history: number of loadAllObjects invocations, per job id
    completedEmits,  \* history: number of 'research:completed' emitted, per job id
    verdictBy,       \* history: the signal that first took the job out of 'running'
    netLog,          \* history: kinds of network call made on behalf of the job
    emits,           \* the notifications emitted by the last step, in order
    \* ---- api.js: streamResponse ----
    reader,          \* "idle" | "reading" | "done": where streamResponse is
    body,            \* history: the concatenation of the chunks read so far
    buffer,          \* streamResponse's `buffer`
    delivered,       \* history: the payloads onEvent was called with, in order
    \* ---- state.js (chat): histories ----
    histories,       \* _histories: context key -> messages, keys created lazily
    appended,        \* history: every message appended to a key since it was last cleared
    lastRead,        \* what getHistory returned, when the last step was a call of it
    \* ---- state.js (chat): turns ----
    activeStream,    \* _activeStream: null, or the handle of a turn's execution
    turns,           \* the sendDocChat / sendWorkspaceChat calls and where each is
    effects,         \* history: per turn, what it appended, emitted and requested
    \* ---- api.js: VertesiaAPI ----
    now,             \* Date.now(), in ms since the client was constructed
    advances,        \* history: how often the clock has advanced
    jwt,             \* this.jwt: 0 for null, else the token
    jwtExpiry,       \* this.jwtExpiry
    issued,          \* history: tokens the credential exchange has handed out
    storedAt,        \* history: per token, the instant it was stored
    expiryOf,        \* history: per token, the expiry stored with it
    callers,         \* the calls into the client and where each is
    \* ---- state.js (chat): a call of extractAnswer ----
    extractArg,     \* its argument
    extraction       \* whether it has returned, and what

jobVars == <<jobs, nextJobId, attempts, interval, pollInFlight, stream, demoTimer,
             loading, membering, completeCalls, loadCalls, completedEmits,
             verdictBy, netLog, emits>>
connVars == <<liveMode, api>>
parserVars == <<reader, body, buffer, delivered>>
histVars == <<histories, appended>>
readVars == <<lastRead>>
chatVars == <<activeStream, turns, effects>>
authVars == <<now, advances, jwt, jwtExpiry, issued, storedAt, expiryOf, callers>>
extractVars == <<extractArg, extraction>>
vars == <<connVars, jobVars, parserVars, histVars, readVars, chatVars, authVars,
          extractVars>>

\* what each component's actions leave alone
jobsFrame == <<connVars, parserVars, histVars, readVars, chatVars, authVars,
              extractVars>>
parserFrame == <<connVars, jobVars, histVars, readVars, chatVars, authVars,
                extractVars>>
historyFrame == <<connVars, jobVars, parserVars, chatVars, authVars, extractVars>>
chatFrame == <<connVars, jobVars, parserVars, readVars, authVars, extractVars>>
authFrame == <<connVars, jobVars, parserVars, histVars, readVars, chatVars,
              extractVars>>
extractFrame == <<connVars, jobVars, parserVars, histVars, readVars, chatVars,
                 authVars>>

\* The tracker is followed for the first job submitted: the ids createJob
\* has assigned.  (Two poll loops of 120 ticks each do not fit a finite check.)
JobIds == {1}
Workspaces == {NULL, "ws1"}

(***************************************************************************)
(* state.js: the job list.                                                 *)
(***************************************************************************)
\* index of the first job with this id, 0 when there is none (Array.find)
FindJob(js, jobId) ==
    IF \E i \in 1..Len(js) : js[i].id = jobId
    THEN CHOOSE i \in 1..Len(js) :
            /\ js[i].id = jobId
            /\ \A k \in 1..(i - 1) : js[k].id # jobId
    ELSE 0

\* Object.assign(job, updates)
Assign(job, updates) ==
    [f \in DOMAIN job |-> IF f \in DOMAIN updates THEN updates[f] ELSE job[f]]

\* state.addJob: unshift
addJob(js, job) == <<job>> \o js

\* state.updateJob: the job list after the update
updateJob(js, jobId, updates) ==
    LET i == FindJob(js, jobId) IN
    IF i = 0 THEN js ELSE [js EXCEPT ![i] = Assign(js[i], updates)]

\* state.updateJob emits 'jobs:changed' only when the job was found
updateJobEmits(js, jobId) ==
    IF FindJob(js, jobId) = 0 THEN <<>> ELSE <<"jobs:changed">>

Job(id) == jobs[FindJob(jobs, id)]
Exists(id) == FindJob(jobs, id) # 0

(***************************************************************************)
(* research.js: bucketStatus.  A progress message is modelled by the set   *)
(* of keywords its lower-cased text includes.                              *)
(***************************************************************************)
Researching == {"search", "finding", "looking"}
Finalizing == {"writ", "compil", "generat", "upload"}
Starting == {"start", "initializ", "plan"}

\* the mutant: a message outside the three buckets is shown as 'Starting...'
bucketStatusDefault(message) ==
    IF message \cap Researching # {} THEN "Researching..."
    ELSE IF message \cap Finalizing # {} THEN "Finalizing..."
    ELSE "Starting..."

bucketStatus(message) ==
    IF message \cap Researching # {} THEN "Researching..."
    ELSE IF message \cap Finalizing # {} THEN "Finalizing..."
    ELSE IF message \cap Starting # {} THEN "Starting..."
    ELSE NULL

\* the progress messages the stream delivers in the model
Messages == {{"search"}, {"upload"}, {"plan"}, {"search", "start"}, {"thinking"}, {}}

\* decoded stream events
StreamEvents ==
    [type : {"update"}, message : Messages]
    \cup {[type |-> "answer", message |-> {}], [type |-> "heartbeat", message |-> {}]}

\* what getRunStatus resolves to: run?.status || run?.result?.status, or a throw
RunOutcomes == {"completed", "succeeded", "failed", "error", "running", "throw"}

(***************************************************************************)
(* Initial state: the module-level state of state.js and research.js.      *)
(***************************************************************************)
JobsInit ==
    /\ jobs = <<>>
    /\ nextJobId = 0
    /\ attempts = [j \in JobIds |-> 0]
    /\ interval = [j \in JobIds |-> FALSE]
    /\ pollInFlight = [j \in JobIds |-> 0]
    /\ stream = [j \in JobIds |-> "none"]
    /\ demoTimer = [j \in JobIds |-> FALSE]
    /\ loading = [j \in JobIds |-> 0]
    /\ membering = [j \in JobIds |-> 0]
    /\ completeCalls = [j \in JobIds |-> 0]
    /\ loadCalls = [j \in JobIds |-> 0]
    /\ completedEmits = [j \in JobIds |-> 0]
    /\ verdictBy = [j \in JobIds |-> "none"]
    /\ netLog = [j \in JobIds |-> {}]
    /\ emits = <<>>

\* state.js:63-64 as loaded
ConnInit ==
    /\ liveMode = FALSE
    /\ api = FALSE

\* the connection as the application's start-up leaves it: any of
\* demo / live, with or without a client object
Connected ==
    /\ liveMode \in BOOLEAN
    /\ api \in BOOLEAN

\* history: the first terminal verdict of a job is recorded, later ones are not
First(jobId, by) ==
    IF verdictBy[jobId] = "none" THEN [verdictBy EXCEPT ![jobId] = by] ELSE verdictBy

(***************************************************************************)
(* research.js: completeJob.  The synchronous prefix: the job is set to    *)
(* 'completed'; with state.api set the catalog reload is requested,        *)
(* without it 'research:completed' is emitted at once.                     *)
(***************************************************************************)
completeJob(jobId) ==
    /\ completeCalls[jobId] < MaxCompletions
    /\ completeCalls' = [completeCalls EXCEPT ![jobId] = @ + 1]
    /\ jobs' = updateJob(jobs, jobId,
                 [status |-> "completed",
                  completedAt |-> completeCalls[jobId] + 1,
                  statusText |-> "Complete"])
    /\ IF api
       THEN /\ loading' = [loading EXCEPT ![jobId] = @ + 1]
            /\ loadCalls' = [loadCalls EXCEPT ![jobId] = @ + 1]
            /\ netLog' = [netLog EXCEPT ![jobId] = @ \cup {"objects"}]
            /\ emits' = updateJobEmits(jobs, jobId)
            /\ UNCHANGED completedEmits
       ELSE /\ completedEmits' = [completedEmits EXCEPT ![jobId] = @ + 1]
            /\ emits' = updateJobEmits(jobs, jobId) \o <<"research:completed">>
            /\ UNCHANGED <<loading, loadCalls, netLog>>
    /\ UNCHANGED membering

\* completeJob after `await state.api.loadAllObjects()`
LoadAllObjectsReturns(jobId, ok) ==
    /\ loading[jobId] > 0
    /\ loading' = [loading EXCEPT ![jobId] = @ - 1]
    /\ IF ok /\ Exists(jobId) /\ Job(jobId).workspaceId # NULL
       THEN /\ membering' = [membering EXCEPT ![jobId] = @ + 1]
            /\ netLog' = [netLog EXCEPT ![jobId] = @ \cup {"members"}]
            /\ emits' = <<"documents:changed">>
            /\ UNCHANGED completedEmits
       ELSE /\ completedEmits' = [completedEmits EXCEPT ![jobId] = @ + 1]
            /\ emits' = (IF ok THEN <<"documents:changed">> ELSE <<>>)
                         \o <<"research:completed">>
            /\ UNCHANGED <<membering, netLog>>
    /\ UNCHANGED <<jobs, nextJobId, attempts, interval, pollInFlight, stream,
                   demoTimer, completeCalls, loadCalls, verdictBy, jobsFrame>>

\* completeJob after `await state.api.getCollectionMembers(job.workspaceId)`
GetCollectionMembersReturns(jobId, ok) ==
    /\ membering[jobId] > 0
    /\ membering' = [membering EXCEPT ![jobId] = @ - 1]
    /\ completedEmits' = [completedEmits EXCEPT ![jobId] = @ + 1]
    /\ emits' = (IF ok THEN <<"workspace:members">> ELSE <<>>)
                 \o <<"research:completed">>
    /\ UNCHANGED <<jobs, nextJobId, attempts, interval, pollInFlight, stream,
                   demoTimer, loading, completeCalls, loadCalls, verdictBy, netLog, jobsFrame>>

(***************************************************************************)
(* research.js: startResearch and createJob.                               *)
(***************************************************************************)
\* the Job record createJob builds
NewJob(id, workspaceId, hasHandle, isLive) ==
    [id |-> id, status |-> "running", workspaceId |-> workspaceId,
     hasHandle |-> hasHandle, isLive |-> isLive, completedAt |-> 0,
     statusText |-> "Starting..."]

\* createJob: the record is added; a live job with a handle starts
\* pollForCompletion (stream observer and poll timer), a demo job arms the
\* 8 s timeout, a live job without a handle starts nothing
createJob(workspaceId, hasHandle, isLive) ==
    LET id == nextJobId + 1 IN
    /\ nextJobId' = id
    /\ jobs' = addJob(jobs, NewJob(id, workspaceId, hasHandle, isLive))
    /\ IF isLive /\ hasHandle
       THEN /\ stream' = [stream EXCEPT ![id] = "open"]
            /\ interval' = [interval EXCEPT ![id] = TRUE]
            /\ netLog' = [netLog EXCEPT ![id] = @ \cup {"execute", "stream"}]
            /\ UNCHANGED demoTimer
       ELSE IF ~isLive
       THEN /\ demoTimer' = [demoTimer EXCEPT ![id] = TRUE]
            /\ UNCHANGED <<stream, interval, netLog>>
       ELSE /\ netLog' = [netLog EXCEPT ![id] = @ \cup {"execute"}]
            /\ UNCHANGED <<stream, interval, demoTimer>>

\* startResearch: validation, then the live path (execute-async, then
\* createJob) or the demo path
startResearch(valid, workspaceId, execOutcome) ==
    /\ IF ~valid
       THEN /\ emits' = <<"toast">>
            /\ UNCHANGED <<jobs, nextJobId, stream, interval, demoTimer, netLog>>
       ELSE IF liveMode /\ api
       THEN IF execOutcome = "throw"
            THEN /\ emits' = <<"toast">>
                 /\ UNCHANGED <<jobs, nextJobId, stream, interval, demoTimer, netLog>>
            ELSE /\ createJob(workspaceId, execOutcome = "handle", TRUE)
                 /\ emits' = <<"jobs:changed">>
       ELSE /\ createJob(workspaceId, FALSE, FALSE)
            /\ emits' = <<"jobs:changed">>
    /\ UNCHANGED <<attempts, pollInFlight, loading, membering, completeCalls,
                   loadCalls, completedEmits, verdictBy, jobsFrame>>

\* the demo job's setTimeout(() => completeJob(job.id), 8000) fires
DemoTimeout(jobId) ==
    /\ demoTimer[jobId]
    /\ demoTimer' = [demoTimer EXCEPT ![jobId] = FALSE]
    /\ completeJob(jobId)
    /\ verdictBy' = First(jobId, "demo")
    /\ UNCHANGED <<nextJobId, attempts, interval, pollInFlight, stream, jobsFrame>>

(***************************************************************************)
(* research.js: pollForCompletion.                                         *)
(***************************************************************************)
\* the mutant: at the cap the timer is cleared and the job is left as it is
PollTickCapSilent(jobId) ==
    /\ interval[jobId]
    /\ attempts' = [attempts EXCEPT ![jobId] = @ + 1]
    /\ IF attempts[jobId] + 1 > MAX_ATTEMPTS
       THEN /\ interval' = [interval EXCEPT ![jobId] = FALSE]
            /\ emits' = <<>>
            /\ UNCHANGED <<jobs, verdictBy, pollInFlight, netLog>>
       ELSE /\ pollInFlight[jobId] < MaxInFlight
            /\ pollInFlight' = [pollInFlight EXCEPT ![jobId] = @ + 1]
            /\ netLog' = [netLog EXCEPT ![jobId] = @ \cup {"status"}]
            /\ emits' = <<>>
            /\ UNCHANGED <<jobs, interval, verdictBy>>
    /\ UNCHANGED <<nextJobId, stream, demoTimer, loading, membering,
                   completeCalls, loadCalls, completedEmits, jobsFrame>>

\* the mutant: the cap is tested one attempt late (attempts > MAX_ATTEMPTS + 1)
PollTickCapLate(jobId) ==
    /\ interval[jobId]
    /\ attempts' = [attempts EXCEPT ![jobId] = @ + 1]
    /\ IF attempts[jobId] + 1 > MAX_ATTEMPTS + 1
       THEN /\ interval' = [interval EXCEPT ![jobId] = FALSE]
            /\ jobs' = updateJob(jobs, jobId,
                         [status |-> "failed", statusText |-> "Timed out"])
            /\ emits' = updateJobEmits(jobs, jobId)
            /\ verdictBy' = First(jobId, "timeout")
            /\ UNCHANGED <<pollInFlight, netLog>>
       ELSE /\ pollInFlight[jobId] < MaxInFlight
            /\ pollInFlight' = [pollInFlight EXCEPT ![jobId] = @ + 1]
            /\ netLog' = [netLog EXCEPT ![jobId] = @ \cup {"status"}]
            /\ emits' = <<>>
            /\ UNCHANGED <<jobs, interval, verdictBy>>
    /\ UNCHANGED <<nextJobId, stream, demoTimer, loading, membering,
                   completeCalls, loadCalls, completedEmits, jobsFrame>>

\* one firing of the setInterval callback, up to its first await
PollTick(jobId) ==
    /\ interval[jobId]
    /\ attempts' = [attempts EXCEPT ![jobId] = @ + 1]
    /\ IF attempts[jobId] + 1 > MAX_ATTEMPTS
       THEN /\ interval' = [interval EXCEPT ![jobId] = FALSE]
            /\ jobs' = updateJob(jobs, jobId,
                         [status |-> "failed", statusText |-> "Timed out"])
            /\ emits' = updateJobEmits(jobs, jobId)
            /\ verdictBy' = First(jobId, "timeout")
            /\ UNCHANGED <<pollInFlight, netLog>>
       ELSE /\ pollInFlight[jobId] < MaxInFlight
            /\ pollInFlight' = [pollInFlight EXCEPT ![jobId] = @ + 1]
            /\ netLog' = [netLog EXCEPT ![jobId] = @ \cup {"status"}]
            /\ emits' = <<>>
            /\ UNCHANGED <<jobs, interval, verdictBy>>
    /\ UNCHANGED <<nextJobId, stream, demoTimer, loading, membering,
                   completeCalls, loadCalls, completedEmits, jobsFrame>>

\* the mutant: a run-status query that throws fails the job
PollReturnsErrorFails(jobId, status) ==
    /\ pollInFlight[jobId] > 0
    /\ pollInFlight' = [pollInFlight EXCEPT ![jobId] = @ - 1]
    /\ IF status \in {"completed", "succeeded"}
       THEN /\ interval' = [interval EXCEPT ![jobId] = FALSE]
            /\ completeJob(jobId)
            /\ verdictBy' = First(jobId, "poll")
       ELSE IF status \in {"failed", "error", "throw"}
       THEN /\ interval' = [interval EXCEPT ![jobId] = FALSE]
            /\ jobs' = updateJob(jobs, jobId,
                         [status |-> "failed", statusText |-> "Research failed"])
            /\ emits' = updateJobEmits(jobs, jobId)
            /\ verdictBy' = First(jobId, "pollFailed")
            /\ UNCHANGED <<loading, membering, completeCalls, loadCalls,
                           completedEmits, netLog>>
       ELSE /\ emits' = <<>>
            /\ UNCHANGED <<jobs, interval, loading, membering, completeCalls,
                           loadCalls, completedEmits, verdictBy, netLog>>
    /\ UNCHANGED <<nextJobId, attempts, stream, demoTimer, jobsFrame>>

\* the mutant: the status 'error' is not a verdict
PollReturnsErrorContinues(jobId, status) ==
    /\ pollInFlight[jobId] > 0
    /\ pollInFlight' = [pollInFlight EXCEPT ![jobId] = @ - 1]
    /\ IF status \in {"completed", "succeeded"}
       THEN /\ interval' = [interval EXCEPT ![jobId] = FALSE]
            /\ completeJob(jobId)
            /\ verdictBy' = First(jobId, "poll")
       ELSE IF status \in {"failed"}
       THEN /\ interval' = [interval EXCEPT ![jobId] = FALSE]
            /\ jobs' = updateJob(jobs, jobId,
                         [status |-> "failed", statusText |-> "Research failed"])
            /\ emits' = updateJobEmits(jobs, jobId)
            /\ verdictBy' = First(jobId, "pollFailed")
            /\ UNCHANGED <<loading, membering, completeCalls, loadCalls,
                           completedEmits, netLog>>
       ELSE /\ emits' = IF status = "throw" THEN <<"warn:poll">> ELSE <<>>
            /\ UNCHANGED <<jobs, interval, loading, membering, completeCalls,
                           loadCalls, completedEmits, verdictBy, netLog>>
    /\ UNCHANGED <<nextJobId, attempts, stream, demoTimer, jobsFrame>>

\* the callback's continuation after `await state.api.getRunStatus(...)`:
\* the verdict of the status, or the catch block (console.warn) on a throw
PollReturns(jobId, status) ==
    /\ pollInFlight[jobId] > 0
    /\ pollInFlight' = [pollInFlight EXCEPT ![jobId] = @ - 1]
    /\ IF status \in {"completed", "succeeded"}
       THEN /\ interval' = [interval EXCEPT ![jobId] = FALSE]
            /\ completeJob(jobId)
            /\ verdictBy' = First(jobId, "poll")
       ELSE IF status \in {"failed", "error"}
       THEN /\ interval' = [interval EXCEPT ![jobId] = FALSE]
            /\ jobs' = updateJob(jobs, jobId,
                         [status |-> "failed", statusText |-> "Research failed"])
            /\ emits' = updateJobEmits(jobs, jobId)
            /\ verdictBy' = First(jobId, "pollFailed")
            /\ UNCHANGED <<loading, membering, completeCalls, loadCalls,
                           completedEmits, netLog>>
       ELSE /\ emits' = IF status = "throw" THEN <<"warn:poll">> ELSE <<>>
            /\ UNCHANGED <<jobs, interval, loading, membering, completeCalls,
                           loadCalls, completedEmits, verdictBy, netLog>>
    /\ UNCHANGED <<nextJobId, attempts, stream, demoTimer, jobsFrame>>

(***************************************************************************)
(* research.js: streamJobStatus.                                           *)
(***************************************************************************)
\* the onEvent callback of the job's stream
StreamDelivers(jobId, data) ==
    /\ stream[jobId] = "open"
    /\ IF data.type = "answer"
       THEN /\ completeJob(jobId)
            /\ verdictBy' = First(jobId, "stream")
       ELSE /\ IF data.type = "update" /\ data.message # {}
                  /\ bucketStatus(data.message) # NULL
               THEN /\ jobs' = updateJob(jobs, jobId,
                                 [statusText |-> bucketStatus(data.message)])
                    /\ emits' = updateJobEmits(jobs, jobId)
               ELSE /\ emits' = <<>>
                    /\ UNCHANGED jobs
            /\ UNCHANGED <<loading, membering, completeCalls, loadCalls,
                           completedEmits, verdictBy, netLog>>
    /\ UNCHANGED <<nextJobId, attempts, interval, pollInFlight, stream, demoTimer,
                   jobsFrame>>

\* streamResponse returns (end of body, a rejected request) or throws
StreamEnds(jobId) ==
    /\ stream[jobId] = "open"
    /\ stream' = [stream EXCEPT ![jobId] = "ended"]
    /\ emits' = <<>>
    /\ UNCHANGED <<jobs, nextJobId, attempts, interval, pollInFlight, demoTimer,
                   loading, membering, completeCalls, loadCalls, completedEmits,
                   verdictBy, netLog, jobsFrame>>

\* what executeResearch resolves to: a handle, a response without
\* workflowId/runId, or a throw
ExecOutcomes == {"handle", "nohandle", "throw"}

\* the first submission of the session: createJob has assigned no id yet
FirstSubmission ==
    /\ nextJobId = 0
    /\ \E valid \in BOOLEAN, w \in Workspaces, x \in ExecOutcomes :
          startResearch(valid, w, x)

NextJobs ==
    \/ FirstSubmission
    \/ \E j \in JobIds : DemoTimeout(j)
    \/ \E j \in JobIds : PollTick(j)
    \/ \E j \in JobIds, s \in RunOutcomes : PollReturns(j, s)
    \/ \E j \in JobIds, d \in StreamEvents : StreamDelivers(j, d)
    \/ \E j \in JobIds : StreamEnds(j)
    \/ \E j \in JobIds, ok \in BOOLEAN : LoadAllObjectsReturns(j, ok)
    \/ \E j \in JobIds, ok \in BOOLEAN : GetCollectionMembersReturns(j, ok)

(***************************************************************************)
(* api.js: streamResponse, the line decoder.                               *)
(*                                                                         *)
(* A body is a sequence of characters.  The alphabet keeps what the        *)
(* decoder distinguishes: "D" is the literal prefix `data:`, "J" a JSON    *)
(* text, "K" a JSON text on which the caller's onEvent raises, "X" text    *)
(* that is not JSON, " " white space and "nl" the newline.                 *)
(***************************************************************************)
Chars == {"D", "J", "K", "X", " ", "nl"}

\* String.prototype.split('\n'): the pieces between newlines, at least one
RECURSIVE Split(_)
Split(s) ==
    IF \A i \in 1..Len(s) : s[i] # "nl" THEN <<s>>
    ELSE LET i == CHOOSE k \in 1..Len(s) :
                      s[k] = "nl" /\ \A m \in 1..(k - 1) : s[m] # "nl"
         IN <<SubSeq(s, 1, i - 1)>> \o Split(SubSeq(s, i + 1, Len(s)))

\* lines.pop(): the last piece, and the pieces before it
Last(pieces) == pieces[Len(pieces)]
Front(pieces) == SubSeq(pieces, 1, Len(pieces) - 1)

\* String.prototype.trim
RECURSIVE Trim(_)
Trim(s) ==
    IF s = <<>> THEN s
    ELSE IF Head(s) = " " THEN Trim(Tail(s))
    ELSE IF s[Len(s)] = " " THEN Trim(SubSeq(s, 1, Len(s) - 1))
    ELSE s

\* line.startsWith('data:')
StartsWithData(line) == Len(line) >= 1 /\ line[1] = "D"

\* JSON.parse(text) returns (TRUE) or throws (FALSE)
JsonParses(text) == text \in {<<"J">>, <<"K">>}

\* the body of the `for (const line of lines)` loop: the payloads onEvent
\* is called with.  A line without the prefix is skipped; a parse error and
\* an error raised by onEvent are both caught by the loop's try/catch.
RECURSIVE Decode(_)
Decode(lines) ==
    IF lines = <<>> THEN <<>>
    ELSE LET line == Head(lines)
             text == Trim(Tail(line))
         IN (IF StartsWithData(line) /\ JsonParses(text) THEN <<text[1]>> ELSE <<>>)
            \o Decode(Tail(lines))

\* the chunks reader.read() may resolve with
RECURSIVE SeqsUpTo(_)
SeqsUpTo(n) ==
    IF n = 0 THEN {<<>>}
    ELSE SeqsUpTo(n - 1)
         \cup {Append(q, c) : q \in {x \in SeqsUpTo(n - 1) : Len(x) = n - 1}, c \in Chars}
Chunks == SeqsUpTo(MaxChunk) \ {<<>>}

ParserInit ==
    /\ reader = "idle"
    /\ body = <<>>
    /\ buffer = <<>>
    /\ delivered = <<>>

\* streamResponse up to the reader: the token, the request, `if (!res.ok) return`
StreamRequest(ok) ==
    /\ reader = "idle"
    /\ reader' = IF ok THEN "reading" ELSE "done"
    /\ UNCHANGED <<body, buffer, delivered, parserFrame>>

\* the mutant: every chunk is decoded on its own, nothing is carried over
ReadChunkNoCarry(value) ==
    /\ reader = "reading"
    /\ Len(body) + Len(value) <= MaxBody
    /\ buffer' = <<>>
    /\ delivered' = delivered \o Decode(Split(value))
    /\ body' = body \o value
    /\ UNCHANGED <<reader, parserFrame>>

\* one turn of the while loop with done = false
ReadChunk(value) ==
    /\ reader = "reading"
    /\ Len(body) + Len(value) <= MaxBody
    /\ LET lines == Split(buffer \o value) IN
       /\ buffer' = Last(lines)
       /\ delivered' = delivered \o Decode(Front(lines))
    /\ body' = body \o value
    /\ UNCHANGED <<reader, parserFrame>>

\* reader.read() resolves with done = true: break
ReadDone ==
    /\ reader = "reading"
    /\ reader' = "done"
    /\ UNCHANGED <<body, buffer, delivered, parserFrame>>

NextParser ==
    \/ \E ok \in BOOLEAN : StreamRequest(ok)
    \/ \E value \in Chunks : ReadChunk(value)
    \/ ReadDone

(***************************************************************************)
(* state.js (chat): the per-context histories.                             *)
(***************************************************************************)
ContextKeys == {"doc:d1", "doc:d2", "ws:w1"}
Roles == {"user", "assistant"}

\* getHistory: _histories[contextKey] || []
getHistory(h, contextKey) ==
    IF contextKey \in DOMAIN h THEN h[contextKey] ELSE <<>>

\* Array.prototype.slice(-n) of a sequence longer than n
SliceLast(q, n) == SubSeq(q, Len(q) - n + 1, Len(q))

\* the mutant: the truncation keeps the first 20 entries, slice(0, 20)
addMessageKeepsOldest(h, contextKey, role, content) ==
    LET pushed == Append(getHistory(h, contextKey), [role |-> role, content |-> content])
        kept == IF Len(pushed) > HISTORY_LIMIT
                THEN SubSeq(pushed, 1, HISTORY_LIMIT) ELSE pushed
    IN [k \in DOMAIN h \cup {contextKey} |-> IF k = contextKey THEN kept ELSE h[k]]

\* addMessage: the histories after the push and the truncation
addMessage(h, contextKey, role, content) ==
    LET pushed == Append(getHistory(h, contextKey), [role |-> role, content |-> content])
        kept == IF Len(pushed) > HISTORY_LIMIT
                THEN SliceLast(pushed, HISTORY_LIMIT) ELSE pushed
    IN [k \in DOMAIN h \cup {contextKey} |-> IF k = contextKey THEN kept ELSE h[k]]

\* the mutant: clearing one key drops every history
clearHistoryAll(h, contextKey) == <<>>

\* clearHistory: delete _histories[contextKey]
clearHistory(h, contextKey) ==
    [k \in DOMAIN h \ {contextKey} |-> h[k]]

\* history: the log of appends of a key
Logged(log, contextKey, role, content) ==
    [log EXCEPT ![contextKey] = Append(@, [role |-> role, content |-> content])]

\* the last step was not a call of getHistory
NoRead == [key |-> NULL, messages |-> <<>>]

HistoryInit ==
    /\ histories = <<>>
    /\ appended = [k \in ContextKeys |-> <<>>]
    /\ lastRead = NoRead

\* a caller appends the n-th message of a conversation: turns alternate,
\* the content is the message's serial number
AddMessage(contextKey) ==
    LET n == Len(appended[contextKey]) + 1
        role == IF n % 2 = 1 THEN "user" ELSE "assistant"
    IN /\ n <= MaxAppends
       /\ histories' = addMessage(histories, contextKey, role, n)
       /\ appended' = Logged(appended, contextKey, role, n)
       /\ lastRead' = NoRead
       /\ UNCHANGED historyFrame

ClearHistory(contextKey) ==
    /\ appended[contextKey] # <<>>
    /\ histories' = clearHistory(histories, contextKey)
    /\ appended' = [appended EXCEPT ![contextKey] = <<>>]
    /\ lastRead' = NoRead
    /\ UNCHANGED historyFrame

\* a caller reads a key's history: getHistory(contextKey)
GetHistory(contextKey) ==
    /\ lastRead' = [key |-> contextKey, messages |-> getHistory(histories, contextKey)]
    /\ UNCHANGED <<histVars, historyFrame>>

NextHistory ==
    \/ \E k \in ContextKeys : AddMessage(k)
    \/ \E k \in ContextKeys : ClearHistory(k)
    \/ \E k \in ContextKeys : GetHistory(k)

(***************************************************************************)
(* state.js (chat): extractAnswer.  A message is a sequence of tokens:     *)
(* "M3" is the marker `**3. Agent Answer:**` (in any letter case), "Mn"    *)
(* another bold numbered marker such as `**4.`, " " white space, every     *)
(* other token plain text.                                                 *)
(***************************************************************************)
\* /\*\*\d+\./ matches at this token
NumberedMarker(tok) == tok \in {"M3", "Mn"}

\* the first index of q at or after `from` whose token satisfies the test,
\* Len(q) + 1 when there is none
FirstMarker(q, from) ==
    IF \E i \in from..Len(q) : NumberedMarker(q[i])
    THEN CHOOSE i \in from..Len(q) :
            NumberedMarker(q[i]) /\ \A k \in from..(i - 1) : ~NumberedMarker(q[k])
    ELSE Len(q) + 1

extractAnswer(fullMessage) ==
    IF \A i \in 1..Len(fullMessage) : fullMessage[i] # "M3" THEN fullMessage
    ELSE LET at == CHOOSE i \in 1..Len(fullMessage) :
                       fullMessage[i] = "M3"
                       /\ \A k \in 1..(i - 1) : fullMessage[k] # "M3"
             stop == FirstMarker(fullMessage, at + 1)
         IN Trim(SubSeq(fullMessage, at + 1, stop - 1))

\* the tokens of the messages extractAnswer is called with: "P3" is the
\* text `3. Agent Answer:` written any other way than inside one pair of
\* `**` (plain, or with only the numeral in bold), "t" other text
Tokens == {"M3", "P3", "Mn", " ", "t"}

RECURSIVE TokenSeqs(_)
TokenSeqs(n) ==
    IF n = 0 THEN {<<>>}
    ELSE TokenSeqs(n - 1)
         \cup {Append(q, c) : q \in {x \in TokenSeqs(n - 1) : Len(x) = n - 1}, c \in Tokens}

\* no call of extractAnswer is under way
ExtractIdle ==
    /\ extractArg = <<>>
    /\ extraction = [returned |-> FALSE, answer |-> <<>>]

\* extractAnswer(extractArg) returns
ExtractAnswer ==
    /\ ~extraction.returned
    /\ extraction' = [returned |-> TRUE, answer |-> extractAnswer(extractArg)]
    /\ UNCHANGED <<extractArg, extractFrame>>

NextExtract == ExtractAnswer

(***************************************************************************)
(* state.js (chat): sendDocChat, sendWorkspaceChat, cancelActiveStream.    *)
(***************************************************************************)
\* _activeStream = null; a handle is modelled by the id of its turn
NoStream == 0
DocKeys == {"doc:d1", "doc:d2"}
WsKeys == {"ws:w1"}

\* the messages an `answer` event or a run result carries; <<>> is a
\* missing or empty message
AnswerMessages == {<<>>, <<"t">>, <<"x", "M3", " ", "t", " ", "Mn", "u">>}

\* the decoded events of a chat stream
ChatEvents ==
    [type : {"answer"}, message : AnswerMessages]
    \cup {[type |-> "update", message |-> <<"t">>]}

\* what the fallback getRunStatus resolves to: a run with result.message,
\* a run without, or a throw
FallbackOutcomes ==
    [kind : {"run"}, message : AnswerMessages] \cup {[kind |-> "throw", message |-> <<>>]}

\* Array.prototype.slice(-10, -1)
SlicePrior(q) ==
    LET from == IF Len(q) > 10 THEN Len(q) - 10 ELSE 0
    IN SubSeq(q, from + 1, Len(q) - 1)

\* the "Previous conversation" block of the task
PreviousConversation(history) ==
    IF Len(history) > 2 THEN SlicePrior(history) ELSE <<>>

\* the number of occurrences of an effect in a turn's effects
Count(q, what) == Cardinality({i \in 1..Len(q) : q[i] = what})

\* the turns started so far
TurnIds == 1..MaxTurns
Started(t) == t <= Len(turns)

Content(turn, kind, text) == [turn |-> turn, kind |-> kind, text |-> text]

ChatInit ==
    /\ activeStream = NoStream
    /\ turns = <<>>
    /\ effects = <<>>

\* history: the turn's effects, extended
Did(t, what) == [effects EXCEPT ![t] = @ \o what]

\* the mutant: the notification is emitted before the message is appended
SendNotifiesFirst(kind, contextKey) ==
    LET t == Len(turns) + 1
        h == addMessage(histories, contextKey, "user", Content(t, "question", <<>>))
        live == liveMode /\ api
    IN /\ Len(turns) < MaxTurns
       /\ histories' = h
       /\ appended' = Logged(appended, contextKey, "user", Content(t, "question", <<>>))
       /\ turns' = Append(turns,
                      [kind |-> kind, key |-> contextKey, live |-> live,
                       cancelled |-> FALSE, failed |-> FALSE,
                       pc |-> IF live THEN "executing" ELSE "demoWait",
                       prior |-> IF live
                                 THEN PreviousConversation(getHistory(h, contextKey))
                                 ELSE <<>>])
       /\ effects' = Append(effects,
                        IF live
                        THEN <<"chat:user-message", "append:user", "chat:thinking",
                               "net:execute">>
                        ELSE <<"chat:user-message", "append:user">>)
       /\ UNCHANGED <<activeStream, chatFrame>>

\* the synchronous prefix common to sendDocChat and sendWorkspaceChat: the
\* user message, its notification, then the demo fallback or the live
\* request
Send(kind, contextKey) ==
    LET t == Len(turns) + 1
        h == addMessage(histories, contextKey, "user", Content(t, "question", <<>>))
        live == liveMode /\ api
    IN /\ Len(turns) < MaxTurns
       /\ histories' = h
       /\ appended' = Logged(appended, contextKey, "user", Content(t, "question", <<>>))
       /\ turns' = Append(turns,
                      [kind |-> kind, key |-> contextKey, live |-> live,
                       cancelled |-> FALSE, failed |-> FALSE,
                       pc |-> IF live THEN "executing" ELSE "demoWait",
                       prior |-> IF live
                                 THEN PreviousConversation(getHistory(h, contextKey))
                                 ELSE <<>>])
       /\ effects' = Append(effects,
                        IF live
                        THEN <<"append:user", "chat:user-message", "chat:thinking",
                               "net:execute">>
                        ELSE <<"append:user", "chat:user-message">>)
       /\ UNCHANGED <<activeStream, chatFrame>>

sendDocChat(contextKey) == Send("doc", contextKey)

sendWorkspaceChat(contextKey) == Send("ws", contextKey)

\* the demo fallback's setTimeout(..., 1500) fires
DemoAnswer(t) ==
    /\ Started(t)
    /\ turns[t].pc = "demoWait"
    /\ histories' = addMessage(histories, turns[t].key, "assistant",
                               Content(t, "demo", <<>>))
    /\ appended' = Logged(appended, turns[t].key, "assistant", Content(t, "demo", <<>>))
    /\ turns' = [turns EXCEPT ![t].pc = "done"]
    /\ effects' = Did(t, <<"append:assistant", "chat:response">>)
    /\ UNCHANGED <<activeStream, chatFrame>>

\* `await state.api.executeResearch(task)` returns or throws
ExecuteReturns(t, ok) ==
    /\ Started(t)
    /\ turns[t].pc = "executing"
    /\ IF ok
       THEN /\ turns' = [turns EXCEPT ![t].pc = "streaming"]
            /\ effects' = Did(t, <<"net:stream">>)
            /\ activeStream' = IF turns[t].kind = "doc" THEN t ELSE activeStream
       ELSE /\ turns' = [turns EXCEPT ![t].pc = "done", ![t].failed = TRUE]
            /\ effects' = Did(t, <<"chat:error">>)
            /\ activeStream' = IF turns[t].kind = "doc" THEN NoStream ELSE activeStream
    /\ UNCHANGED <<histVars, chatFrame>>

\* the onEvent callback of the turn's stream
StreamEvent(t, data) ==
    /\ Started(t)
    /\ turns[t].pc = "streaming"
    /\ IF data.type = "answer" /\ data.message # <<>>
       THEN LET answer == Content(t, "answer", extractAnswer(data.message)) IN
            /\ Count(effects[t], "chat:response") < MaxTurnAnswers
            /\ histories' = addMessage(histories, turns[t].key, "assistant", answer)
            /\ appended' = Logged(appended, turns[t].key, "assistant", answer)
            /\ effects' = Did(t, <<"append:assistant", "chat:response">>)
            /\ activeStream' = IF turns[t].kind = "doc" THEN NoStream ELSE activeStream
       ELSE UNCHANGED <<histVars, effects, activeStream>>
    /\ UNCHANGED <<turns, chatFrame>>

\* streamResponse returns: at the end of the body, or at once when the
\* stream request is rejected (`if (!res.ok) return`, before any event).
\* History: a rejected request is recorded as a failure of the turn.
StreamReturns(t, rejected) ==
    /\ Started(t)
    /\ turns[t].pc = "streaming"
    /\ rejected => Count(effects[t], "chat:response") = 0
    /\ IF turns[t].kind = "doc" /\ activeStream # NoStream
       THEN /\ turns' = [turns EXCEPT ![t].pc = "fallback",
                                       ![t].failed = @ \/ rejected]
            /\ effects' = Did(t, <<"net:status">>)
       ELSE /\ turns' = [turns EXCEPT ![t].pc = "done",
                                       ![t].failed = @ \/ rejected]
            /\ UNCHANGED effects
    /\ UNCHANGED <<activeStream, histVars, chatFrame>>

\* streamResponse throws (its credential exchange, the fetch, a read of the
\* body): the catch block
StreamThrows(t) ==
    /\ Started(t)
    /\ turns[t].pc = "streaming"
    /\ turns' = [turns EXCEPT ![t].pc = "done", ![t].failed = TRUE]
    /\ effects' = Did(t, <<"chat:error">>)
    /\ activeStream' = IF turns[t].kind = "doc" THEN NoStream ELSE activeStream
    /\ UNCHANGED <<histVars, chatFrame>>

\* sendDocChat after `await state.api.getRunStatus(workflowId, runId)`
FallbackReturns(t, run) ==
    /\ Started(t)
    /\ turns[t].pc = "fallback"
    /\ turns' = [turns EXCEPT ![t].pc = "done",
                               ![t].failed = @ \/ run.kind = "throw"]
    /\ activeStream' = NoStream
    /\ IF run.kind = "run" /\ run.message # <<>>
       THEN LET answer == Content(t, "answer", extractAnswer(run.message)) IN
            /\ histories' = addMessage(histories, turns[t].key, "assistant", answer)
            /\ appended' = Logged(appended, turns[t].key, "assistant", answer)
            /\ effects' = Did(t, <<"append:assistant", "chat:response">>)
       ELSE /\ effects' = Did(t, <<"chat:error">>)
            /\ UNCHANGED histVars
    /\ UNCHANGED chatFrame

\* a turn whose stream is open
Streaming(t) == Started(t) /\ turns[t].pc = "streaming"

\* cancelActiveStream: _activeStream = null, whatever it was.  History: the
\* turns whose stream is open at the call are marked as cancelled.
cancelActiveStream ==
    /\ activeStream # NoStream \/ \E t \in TurnIds : Streaming(t) /\ ~turns[t].cancelled
    /\ activeStream' = NoStream
    /\ turns' = [t \in 1..Len(turns) |->
                   IF Streaming(t) THEN [turns[t] EXCEPT !.cancelled = TRUE]
                   ELSE turns[t]]
    /\ UNCHANGED <<effects, histVars, chatFrame>>

NextChat ==
    \/ \E k \in DocKeys : sendDocChat(k)
    \/ \E k \in WsKeys : sendWorkspaceChat(k)
    \/ \E t \in TurnIds : DemoAnswer(t)
    \/ \E t \in TurnIds, ok \in BOOLEAN : ExecuteReturns(t, ok)
    \/ \E t \in TurnIds, d \in ChatEvents : StreamEvent(t, d)
    \/ \E t \in TurnIds, rejected \in BOOLEAN : StreamReturns(t, rejected)
    \/ \E t \in TurnIds : StreamThrows(t)
    \/ \E t \in TurnIds, r \in FallbackOutcomes : FallbackReturns(t, r)
    \/ cancelActiveStream

\* the chat turns whose streams deliver no `answer` event: every step that
\* sends a message, starts a request or ends a turn, without the stream
\* callback
NextChatRequests ==
    \/ \E k \in DocKeys : sendDocChat(k)
    \/ \E k \in WsKeys : sendWorkspaceChat(k)
    \/ \E t \in TurnIds : DemoAnswer(t)
    \/ \E t \in TurnIds, ok \in BOOLEAN : ExecuteReturns(t, ok)
    \/ \E t \in TurnIds, rejected \in BOOLEAN : StreamReturns(t, rejected)
    \/ \E t \in TurnIds : StreamThrows(t)
    \/ \E t \in TurnIds, r \in FallbackOutcomes : FallbackReturns(t, r)
    \/ cancelActiveStream

(***************************************************************************)
(* api.js: getAuthToken and the requests that carry its token.             *)
(*                                                                         *)
(* The continuation of an `await` on a promise that is already settled     *)
(* runs in the same task: the clock does not advance between a cached      *)
(* getAuthToken and the request that uses its token.  It may advance while *)
(* the credential exchange is awaited.                                     *)
(***************************************************************************)
TokenIds == 1..MaxCalls

\* the callers of getAuthToken: call(endpoint), streamResponse, and
\* updateCollection (its own getAuthToken, then call with that token as
\* the Authorization header)
CallKinds == {"call", "streamResponse", "updateCollection"}

\* the clock advances by 1 ms, or by one ms less than the time a token is
\* served from the cache
TimeSteps == {1, LIFETIME - SKEW - 1}

AuthInit ==
    /\ now = 0
    /\ advances = 0
    /\ jwt = 0
    /\ jwtExpiry = 0
    /\ issued = 0
    /\ storedAt = [k \in TokenIds |-> 0]
    /\ expiryOf = [k \in TokenIds |-> 0]
    /\ callers = <<>>

\* the mutant: the cached token is served up to its expiry, without the skew
CachedNoSkew(token, expiry, t) == token # 0 /\ t < expiry

\* the mutant: the cached token is still served at expiry minus the skew
CachedInclusive(token, expiry, t) == token # 0 /\ t <= expiry - SKEW

\* getAuthToken's first line: this.jwt && Date.now() < this.jwtExpiry - 60000
Cached(token, expiry, t) == token # 0 /\ t < expiry - SKEW

\* a caller whose (first) getAuthToken has produced `token`, with the cache
\* as given: what it does before its next suspension.  call and
\* streamResponse issue their request with the token.  updateCollection
\* keeps the token as its Authorization header and enters call(), whose own
\* getAuthToken is served from the cache or starts an exchange; the request
\* call() then issues carries the header of updateCollection.
Proceed(c, token, cachedJwt, cachedExpiry) ==
    LET withToken == [c EXCEPT !.token = token] IN
    IF c.kind \in {"call", "streamResponse"}
    THEN [withToken EXCEPT !.pc = "done", !.requestToken = token, !.requestAt = now]
    ELSE IF Cached(cachedJwt, cachedExpiry, now)
    THEN [withToken EXCEPT !.pc = "done", !.requestToken = token, !.requestAt = now]
    ELSE [withToken EXCEPT !.pc = "exchanging", !.stage = 2]

\* an entry point is called: getAuthToken serves the cached token, or
\* sends the credential exchange.  A caller's calledAt, seenToken, cached,
\* exchanges and token record this getAuthToken call (for updateCollection,
\* its own; the one inside call() is its stage 2).
Call(kind) ==
    LET c == [kind |-> kind, pc |-> "auth", stage |-> 1, calledAt |-> now,
              seenToken |-> jwt, cached |-> FALSE, exchanges |-> 0, token |-> 0,
              requestToken |-> 0, requestAt |-> -1]
    IN /\ Len(callers) < MaxCalls
       /\ IF Cached(jwt, jwtExpiry, now)
          THEN callers' = Append(callers, Proceed([c EXCEPT !.cached = TRUE],
                                                  jwt, jwt, jwtExpiry))
          ELSE callers' = Append(callers, [c EXCEPT !.pc = "exchanging",
                                                     !.exchanges = 1])
       /\ UNCHANGED <<now, advances, jwt, jwtExpiry, issued, storedAt, expiryOf,
                      authFrame>>

\* how the credential exchange can end: a response that is not ok (or a
\* rejected fetch), an ok response with a token in one of the three fields,
\* an ok response with none of them
ExchangeOutcomes == {"not ok", "token", "no token"}

\* the credential exchange of a caller returns.  Not ok: getAuthToken
\* throws and the cache is as it was.  Otherwise this.jwt is what the
\* response carries (undefined, here 0, when it carries no token) and
\* this.jwtExpiry is now + 3500000.
ExchangeReturns(i, outcome) ==
    /\ i <= Len(callers)
    /\ callers[i].pc = "exchanging"
    /\ IF outcome = "not ok"
       THEN /\ callers' = [callers EXCEPT ![i].pc = "failed"]
            /\ UNCHANGED <<jwt, jwtExpiry, issued, storedAt, expiryOf>>
       ELSE LET token == IF outcome = "token" THEN issued + 1 ELSE 0 IN
            /\ issued' = IF outcome = "token" THEN token ELSE issued
            /\ jwt' = token
            /\ jwtExpiry' = now + LIFETIME
            /\ storedAt' = IF outcome = "token"
                           THEN [storedAt EXCEPT ![token] = now] ELSE storedAt
            /\ expiryOf' = IF outcome = "token"
                           THEN [expiryOf EXCEPT ![token] = now + LIFETIME]
                           ELSE expiryOf
            /\ callers' = [callers EXCEPT ![i] =
                              IF callers[i].stage = 1
                              THEN Proceed(callers[i], token, token, now + LIFETIME)
                              ELSE [callers[i] EXCEPT !.pc = "done",
                                       !.requestToken = callers[i].token,
                                       !.requestAt = now]]
    /\ UNCHANGED <<now, advances, authFrame>>

\* time passes
Advance(d) ==
    /\ advances < MaxAdvances
    /\ advances' = advances + 1
    /\ now' = now + d
    /\ UNCHANGED <<jwt, jwtExpiry, issued, storedAt, expiryOf, callers, authFrame>>

NextAuth ==
    \/ \E kind \in CallKinds : Call(kind)
    \/ \E i \in TokenIds, outcome \in ExchangeOutcomes : ExchangeReturns(i, outcome)
    \/ \E d \in TimeSteps : Advance(d)

(***************************************************************************)
(* The specifications, one per component.                                  *)
(***************************************************************************)
Init ==
    /\ ConnInit
    /\ JobsInit
    /\ ParserInit
    /\ HistoryInit
    /\ ChatInit
    /\ AuthInit
    /\ ExtractIdle

InitJobs ==
    /\ Connected
    /\ JobsInit
    /\ ParserInit
    /\ HistoryInit
    /\ ChatInit
    /\ AuthInit
    /\ ExtractIdle

InitChat == InitJobs

SpecJobs == InitJobs /\ [][NextJobs]_vars

\* the timer of setInterval keeps firing while it is set, and a run-status
\* query that was sent settles (with a response or an error)
FairPoll ==
    \A j \in JobIds :
        /\ WF_vars(PollTick(j))
        /\ WF_vars(\E s \in RunOutcomes : PollReturns(j, s))

SpecJobsFair == InitJobs /\ [][NextJobs]_vars /\ FairPoll
SpecParser == Init /\ [][NextParser]_vars
SpecHistory == Init /\ [][NextHistory]_vars
SpecChat == InitChat /\ [][NextChat]_vars
SpecChatRequests == InitChat /\ [][NextChatRequests]_vars
SpecAuth == Init /\ [][NextAuth]_vars

\* extractAnswer is called with any message of up to MaxMessage tokens
InitExtract ==
    /\ ConnInit
    /\ JobsInit
    /\ ParserInit
    /\ HistoryInit
    /\ ChatInit
    /\ AuthInit
    /\ extractArg \in TokenSeqs(MaxMessage)
    /\ extraction = [returned |-> FALSE, answer |-> <<>>]

SpecExtract == InitExtract /\ [][NextExtract]_vars

\* state.js:76  jobs: loadJSON(STORAGE_KEYS.JOBS, []): the job lists a
\* previous session can have saved.  Here: none, or its first job, completed.
RestoredJobs ==
    {<<>>,
     <<Assign(NewJob(1, "ws1", TRUE, TRUE),
              [status |-> "completed", completedAt |-> 1, statusText |-> "Complete"])>>}

\* the module state after a (re)load of the page: the job list comes from
\* the store, _nextJobId starts at 0 again, no observer is running
InitRestored ==
    /\ Connected
    /\ jobs \in RestoredJobs
    /\ nextJobId = 0
    /\ attempts = [j \in JobIds |-> 0]
    /\ interval = [j \in JobIds |-> FALSE]
    /\ pollInFlight = [j \in JobIds |-> 0]
    /\ stream = [j \in JobIds |-> "none"]
    /\ demoTimer = [j \in JobIds |-> FALSE]
    /\ loading = [j \in JobIds |-> 0]
    /\ membering = [j \in JobIds |-> 0]
    /\ completeCalls = [j \in JobIds |-> 0]
    /\ loadCalls = [j \in JobIds |-> 0]
    /\ completedEmits = [j \in JobIds |-> 0]
    /\ verdictBy = [j \in JobIds |-> "none"]
    /\ netLog = [j \in JobIds |-> {}]
    /\ emits = <<>>
    /\ ParserInit
    /\ HistoryInit
    /\ ChatInit
    /\ AuthInit
    /\ ExtractIdle

SpecJobsRestored == InitRestored /\ [][NextJobs]_vars

(***************************************************************************)
(* Job tracker: the properties.                                            *)
(***************************************************************************)
Terminal(status) == status \in {"completed", "failed"}

\* C1 (as claimed): once a job's status is 'completed' or 'failed' it never
\* changes again, whatever stream event, poll result or poll-cap tick follows.
C1_StatusLeavesRunningOnce ==
    [][\A j \in JobIds :
          (Exists(j) /\ Terminal(Job(j).status))
              => Job(j)'.status = Job(j).status]_vars

\* C2 (as claimed): when the poll observer is the first to see success, the
\* job is 'completed' and the completion side effects happen once: one
\* loadAllObjects, one 'research:completed', also after a later `answer`.
C2_PollFirstCompletesOnce ==
    \A j \in JobIds :
        verdictBy[j] = "poll"
            => /\ Job(j).status = "completed"
               /\ loadCalls[j] <= 1
               /\ completedEmits[j] <= 1

\* C3 (as claimed): the tick after the 120th attempt sets the job to
\* 'failed' with statusText "Timed out." (with the full stop).
C3_TimedOutFullStop ==
    [][\A j \in JobIds :
          (attempts[j] = MAX_ATTEMPTS /\ attempts'[j] = MAX_ATTEMPTS + 1)
              => /\ Job(j)'.status = "failed"
                 /\ Job(j)'.statusText = "Timed out."]_vars

\* C3 (amended): the tick after the 120th attempt sets the job to 'failed'
\* with statusText 'Timed out' (no full stop), and a job that timed out
\* stays 'failed' as long as neither the stream delivers `answer` nor a poll
\* reports success (no completeJob invocation).
C3_TimedOut ==
    /\ [][\A j \in JobIds :
            (attempts[j] = MAX_ATTEMPTS /\ attempts'[j] = MAX_ATTEMPTS + 1)
                => /\ Job(j)'.status = "failed"
                   /\ Job(j)'.statusText = "Timed out"]_vars
    /\ [](\A j \in JobIds :
            (attempts[j] > MAX_ATTEMPTS /\ completeCalls[j] = 0)
                => Job(j).status = "failed")

\* C3 witness: the poll loop ran past its cap with no completion signal, and
\* the job is failed with the timeout text.
C3_Witness ==
    \E j \in JobIds :
        /\ attempts[j] = MAX_ATTEMPTS + 1
        /\ completeCalls[j] = 0
        /\ verdictBy[j] = "timeout"
        /\ Job(j).status = "failed"
        /\ Job(j).statusText = "Timed out"

\* C9 (as claimed): a demo job starts no observer and makes no network call,
\* up to and including its completion, whatever state.api is.
C9_DemoJobNoNetwork ==
    \A j \in JobIds :
        (Exists(j) /\ ~Job(j).isLive)
            => /\ netLog[j] = {}
               /\ stream[j] = "none"
               /\ ~interval[j]
               /\ attempts[j] = 0

(***************************************************************************)
(* Stream decoder: the properties.                                         *)
(***************************************************************************)
\* a well-formed `data:` line: the prefix, then one JSON text with optional
\* white space around it
WellFormed(line) ==
    \E a, b \in 0..Len(line), v \in {"J", "K"} :
        line = <<"D">> \o [i \in 1..a |-> " "] \o <<v>> \o [i \in 1..b |-> " "]

\* the number of well-formed lines among the lines of a body
WellFormedCount(text) ==
    Cardinality({i \in 1..Len(Split(text)) : WellFormed(Split(text)[i])})

\* C4 (as claimed): when the stream has ended, onEvent has been called once
\* per well-formed `data:` line of the concatenated chunks, a well-formed
\* last line at end-of-body included.
C4_OneCallPerWellFormedLine ==
    reader = "done" => Len(delivered) = WellFormedCount(body)

(***************************************************************************)
(* Chat histories: the properties.                                         *)
(***************************************************************************)
\* the most recent n messages of a log, in append order
MostRecent(log, n) ==
    [i \in 1..(IF Len(log) < n THEN Len(log) ELSE n) |->
        log[i + (IF Len(log) < n THEN 0 ELSE Len(log) - n)]]

\* C5: after any number of addMessage calls a context's history has at most
\* 20 entries and is exactly the most recent (up to 20) appended messages in
\* append order: the oldest are evicted first.
C5_HistoryKeepsLatest20 ==
    \A k \in ContextKeys :
        /\ Len(getHistory(histories, k)) <= 20
        /\ getHistory(histories, k) = MostRecent(appended[k], 20)

\* C5 witness: more than 20 messages were appended to a key and its history
\* holds 20, the first of them being the 3rd message appended.
C5_Witness ==
    \E k \in ContextKeys :
        /\ Len(appended[k]) = 22
        /\ Len(getHistory(histories, k)) = 20
        /\ getHistory(histories, k)[1].content = 3

(***************************************************************************)
(* Chat turns: the properties.                                             *)
(***************************************************************************)
Finished(t) == turns[t].pc = "done"

\* the notification topics among a turn's effects, in order
RECURSIVE Topics(_)
Topics(q) ==
    IF q = <<>> THEN <<>>
    ELSE (IF Head(q) \in {"chat:user-message", "chat:thinking", "chat:response",
                          "chat:error"}
          THEN <<Head(q)>> ELSE <<>>) \o Topics(Tail(q))

\* the network requests among a turn's effects
Requests(q) == {i \in 1..Len(q) : q[i] \in {"net:execute", "net:stream", "net:status"}}

\* C6 (as claimed): a chat turn that has ended has produced exactly one of
\* {an assistant answer appended with 'chat:response', 'chat:error'}: not
\* both, not two answers, not neither.
C6_TurnEndsInExactlyOneOutcome ==
    \A t \in 1..Len(turns) :
        Finished(t)
            => Count(effects[t], "chat:response") + Count(effects[t], "chat:error") = 1

\* C10 (as claimed): a chat send without a live backend makes no network
\* request, appends the user message and the placeholder answer, and emits
\* the topics of a successful live turn: user-message, thinking, response.
C10_DemoTurnLooksLikeLiveTurn ==
    \A t \in 1..Len(turns) :
        (Finished(t) /\ ~turns[t].live)
            => /\ Requests(effects[t]) = {}
               /\ \E i, j \in 1..Len(appended[turns[t].key]) :
                      /\ i < j
                      /\ appended[turns[t].key][i].content = Content(t, "question", <<>>)
                      /\ appended[turns[t].key][j].content = Content(t, "demo", <<>>)
               /\ Topics(effects[t])
                      = <<"chat:user-message", "chat:thinking", "chat:response">>

\* the positions of an effect in a turn's effects
Positions(q, what) == {i \in 1..Len(q) : q[i] = what}

\* C11 (as claimed): after cancelActiveStream is called while a turn's
\* stream is open, that turn issues no fallback run-status query when its
\* stream ends, also when another turn is started or answered in between.
C11_CancelledTurnHasNoFallback ==
    \A t \in 1..Len(turns) :
        turns[t].cancelled => Positions(effects[t], "net:status") = {}

C8_StaleAtLifetimeMinusSkew ==
    /\ \A i \in 1..Len(callers) :
          LET c == callers[i]
              T == storedAt[c.seenToken]
          IN c.seenToken # 0 =>
             /\ c.calledAt < T + 3500000 - 60000
                   => (c.cached /\ c.exchanges = 0 /\ c.token = c.seenToken)
             /\ c.calledAt = T + 3500000 - 60000
                   => /\ ~c.cached
                      /\ c.exchanges = 1
                      /\ c.pc = "done" => (c.token # c.seenToken /\ jwt # c.seenToken)
    /\ jwt # 0 => (jwt = issued /\ jwtExpiry = storedAt[jwt] + 3500000)

\* C8 witness: a call made exactly at T + 3500000 - 60000 has completed its
\* one exchange and holds the replacement token.
C8_Witness ==
    \E i \in 1..Len(callers) :
        /\ callers[i].seenToken # 0
        /\ callers[i].calledAt = storedAt[callers[i].seenToken] + 3500000 - 60000
        /\ callers[i].pc = "done"
        /\ callers[i].exchanges = 1
        /\ callers[i].token = jwt
        /\ jwt \notin {0, callers[i].seenToken}
        /\ jwtExpiry = now + 3500000

\* the callers whose credential exchange has been sent and has not returned
Exchanging == {i \in 1..Len(callers) : callers[i].pc = "exchanging"}

\* C12 (as claimed): callers that find no fresh token while a credential
\* exchange is in flight share that exchange: at most one exchange request
\* is in flight at any time.
C12_SingleInFlightRefresh ==
    Cardinality(Exchanging) <= 1

(***************************************************************************)
(* extractAnswer: the properties.                                          *)
(***************************************************************************)
\* the text `3. Agent Answer:`, with or without bold markup
AnswerMarker(tok) == tok \in {"M3", "P3"}

\* the answer as claimed: the trimmed text between the first answer marker
\* and the next numbered section marker or the end, the input when there is
\* no answer marker
ClaimedAnswer(q) ==
    IF \A i \in 1..Len(q) : ~AnswerMarker(q[i]) THEN q
    ELSE LET at == CHOOSE i \in 1..Len(q) :
                       AnswerMarker(q[i]) /\ \A k \in 1..(i - 1) : ~AnswerMarker(q[k])
         IN Trim(SubSeq(q, at + 1, FirstMarker(q, at + 1) - 1))

\* C13 (as claimed): extractAnswer returns the trimmed text between the
\* "3. Agent Answer:" marker, with or without bold markup, and the next
\* numbered section marker or the end of the text; its input when the
\* marker is absent.
C13_ExtractAnswerAsClaimed ==
    extraction.returned => extraction.answer = ClaimedAnswer(extractArg)

(***************************************************************************)
(* Chat turns: the order of a send.                                        *)
(***************************************************************************)
\* C14: in every chat send the user's message is appended to the context's
\* history before 'chat:user-message' is emitted, and both happen before
\* any network request of the turn.
C14_AppendThenNotifyThenNetwork ==
    \A t \in 1..Len(turns) :
        /\ effects[t][1] = "append:user"
        /\ effects[t][2] = "chat:user-message"
        /\ Positions(effects[t], "append:user") = {1}
        /\ Positions(effects[t], "chat:user-message") = {2}
        /\ \A r \in Requests(effects[t]) : r > 2
        /\ \E i \in 1..Len(appended[turns[t].key]) :
              appended[turns[t].key][i] =
                  [role |-> "user", content |-> Content(t, "question", <<>>)]

\* C14 witness: a live workspace turn and a live document turn have both
\* sent their execute and stream requests.
C14_Witness ==
    \E t, u \in 1..Len(turns) :
        /\ turns[t].kind = "doc"
        /\ turns[u].kind = "ws"
        /\ \A x \in {t, u} :
              {"net:execute", "net:stream"}
                  \subseteq {effects[x][r] : r \in Requests(effects[x])}

C16_PollErrorIsTransient ==
    [][\A j \in JobIds :
          PollReturns(j, "throw")
              => /\ jobs' = jobs
                 /\ interval' = interval
                 /\ attempts' = attempts
                 /\ emits' = <<"warn:poll">>]_vars

\* C16 witness: the query of the second tick has just raised, the first
\* tick's attempt and its own are both counted, and the job is running with
\* its timer active.
C16_Witness ==
    \E j \in JobIds :
        /\ emits = <<"warn:poll">>
        /\ attempts[j] = 2
        /\ pollInFlight[j] = 0
        /\ interval[j]
        /\ Job(j).status = "running"
        /\ Job(j).statusText = "Starting..."

\* C17: on a poll response, status 'completed' or 'succeeded' completes the
\* job and 'failed' or 'error' sets it to 'failed', both clearing the
\* timer; any other or missing status changes neither the job nor the timer.
\* (A poll response is a step that takes one query out of flight; the
\* implication is written as "verdict holds, or the step is not that response".)
C17_PollStatusToVerdict ==
    [][\A j \in JobIds :
        pollInFlight'[j] = pollInFlight[j] - 1 =>
        \A status \in RunOutcomes \ {"throw"} :
          \/ IF status \in {"completed", "succeeded"}
             THEN /\ Job(j)'.status = "completed"
                  /\ completeCalls'[j] = completeCalls[j] + 1
                  /\ ~interval'[j]
             ELSE IF status \in {"failed", "error"}
             THEN /\ Job(j)'.status = "failed"
                  /\ Job(j)'.statusText = "Research failed"
                  /\ completeCalls' = completeCalls
                  /\ ~interval'[j]
             ELSE /\ jobs' = jobs
                  /\ interval' = interval
                  /\ completeCalls' = completeCalls
          \/ ~PollReturns(j, status)]_vars

\* C17 witness: after a response without a verdict on the first tick, the
\* response of the second tick failed the job and cleared the timer.
C17_Witness ==
    \E j \in JobIds :
        /\ verdictBy[j] = "pollFailed"
        /\ attempts[j] = 2
        /\ Job(j).status = "failed"
        /\ Job(j).statusText = "Research failed"
        /\ ~interval[j]

\* the text of a message matches one of the three buckets
MatchesBucket(message) == message \cap (Researching \cup Finalizing \cup Starting) # {}

\* C18: a stream event of kind `update` whose text matches a bucket changes
\* the job's statusText and nothing else of the job; an `update` with
\* unmatched (or no) text and an event of an unrecognized kind leave the job
\* list as it is and emit nothing.  (A stream event other than `answer`
\* leaves the poll loop, the stream and the completions alone: only such
\* steps are looked at.)
C18_UpdateChangesOnlyStatusText ==
    [][UNCHANGED <<attempts, pollInFlight, stream, completeCalls>> =>
        \A j \in JobIds, d \in StreamEvents :
          (d.type # "answer" /\ StreamDelivers(j, d))
              => IF d.type = "update" /\ MatchesBucket(d.message)
                 THEN /\ Job(j)'.statusText
                            \in {"Researching...", "Finalizing...", "Starting..."}
                      /\ Job(j)' = [Job(j) EXCEPT !.statusText = Job(j)'.statusText]
                      /\ emits' = <<"jobs:changed">>
                 ELSE /\ jobs' = jobs
                      /\ emits' = <<>>]_vars

\* C18 witness: an `update` has moved a running job's statusText to another
\* bucket.
C18_Witness ==
    \E j \in JobIds :
        /\ emits = <<"jobs:changed">>
        /\ stream[j] = "open"
        /\ Job(j).status = "running"
        /\ Job(j).statusText = "Finalizing..."

\* the step just taken emitted this topic
Emitted(topic) == \E i \in 1..Len(emits) : emits[i] = topic

\* C19 (as claimed): every invocation of the completion emits
\* 'research:completed' once, after its catalog and member-list refreshes
\* have ended (also when they failed), the member list being refreshed only
\* for a job with a workspaceId; the notification is never emitted for a job
\* that is 'failed'.
C19_CompletedNotificationOrder ==
    \A j \in JobIds :
        /\ completedEmits[j] + loading[j] + membering[j] = completeCalls[j]
        /\ "members" \in netLog[j] => Job(j).workspaceId # NULL
        /\ (Exists(j) /\ Emitted("research:completed")) => Job(j).status = "completed"

\* C20 (as claimed): a live job is in the job list only when the execute
\* call has returned an execution handle (workflowId and runId), and its
\* observers were started with it; a submission that was rejected by the
\* validation or whose execute call failed leaves the list empty and starts
\* no observer.
C20_LiveJobHasExecutionHandle ==
    /\ \A j \in JobIds :
          (Exists(j) /\ Job(j).isLive)
              => /\ "execute" \in netLog[j]
                 /\ Job(j).hasHandle
                 /\ stream[j] # "none"
    /\ Emitted("toast")
          => /\ jobs = <<>>
             /\ nextJobId = 0
             /\ \A j \in JobIds : stream[j] = "none" /\ ~interval[j] /\ ~demoTimer[j]

(***************************************************************************)
(* Chat turns: the task's "Previous conversation" block.                   *)
(***************************************************************************)
\* the messages appended to the turn's context before the turn's own question
PriorMessages(t) ==
    LET log == appended[turns[t].key]
        at == CHOOSE i \in 1..Len(log) : log[i].content = Content(t, "question", <<>>)
    IN SubSeq(log, 1, at - 1)

\* C21 (as claimed): the "Previous conversation" block of a live turn holds
\* the messages of the context before the turn's question, in order, the
\* most recent 9 of them, all of them when there are fewer, and never the
\* question itself.
C21_PreviousConversationIsPrior ==
    \A t \in 1..Len(turns) :
        turns[t].live => turns[t].prior = MostRecent(PriorMessages(t), 9)

(***************************************************************************)
(* Chat turns: failures.                                                   *)
(***************************************************************************)
\* C22 (as claimed): a live chat turn in which a request failed (the
\* execute call or a credential exchange raised, the stream request was
\* rejected or raised, the fallback status query raised) ends with a
\* 'chat:error' notification, never silently.
C22_FailedTurnNotifiesError ==
    \A t \in 1..Len(turns) :
        (Finished(t) /\ turns[t].failed)
            => Count(effects[t], "chat:error") >= 1

(***************************************************************************)
(* Token cache: a failed credential exchange.                              *)
(***************************************************************************)
\* C23 (as claimed): a credential exchange that issues no token makes
\* getAuthToken raise: the caller sends no request and no further exchange,
\* and the cached token and expiry stay as they were; a request always
\* carries an issued token; token and expiry change only together, in the
\* step of an exchange that issued a token.
C23_FailedExchangeLeavesCache ==
    /\ [](\A i \in 1..Len(callers) :
            /\ callers[i].pc = "failed" => callers[i].requestAt = -1
            /\ callers[i].requestAt >= 0 => callers[i].requestToken \in 1..issued)
    /\ [][/\ \A i \in 1..Len(callers) :
              /\ callers[i].pc = "failed" => callers'[i] = callers[i]
              /\ (callers[i].pc # "failed" /\ callers'[i].pc = "failed")
                    => (jwt' = jwt /\ jwtExpiry' = jwtExpiry)
          /\ (jwt' # jwt \/ jwtExpiry' # jwtExpiry)
                => /\ issued' = issued + 1
                   /\ jwt' = issued'
                   /\ jwtExpiry' = now + LIFETIME]_vars

(***************************************************************************)
(* Chat histories: one per context key.                                    *)
(***************************************************************************)
\* the key has an entry in _histories
HasEntry(h, contextKey) == contextKey \in DOMAIN h

\* C24: addMessage and clearHistory on one key leave every other key's
\* history (and whether it has one) as it was; getHistory changes nothing,
\* creates no entry and returns the key's messages, none for a key without
\* messages; a key that was cleared, or never written, has no entry and an
\* empty history until its next message.
C24_HistoriesIndependentPerKey ==
    /\ [](\A k \in ContextKeys :
            appended[k] = <<>>
                => (~HasEntry(histories, k) /\ getHistory(histories, k) = <<>>))
    /\ [](lastRead # NoRead
            => /\ lastRead.messages = MostRecent(appended[lastRead.key], 20)
               /\ HasEntry(histories, lastRead.key) <=> appended[lastRead.key] # <<>>)
    /\ [][\A k \in ContextKeys :
            /\ (AddMessage(k) \/ ClearHistory(k))
                  => \A o \in ContextKeys \ {k} :
                        /\ HasEntry(histories', o) <=> HasEntry(histories, o)
                        /\ getHistory(histories', o) = getHistory(histories, o)
            /\ GetHistory(k) => histories' = histories]_vars

\* C24 witness: one key holds a full history, another a single message, and
\* the third, read just now after being written and cleared or never
\* written, has no entry and was returned empty.
C24_Witness ==
    /\ lastRead = [key |-> "doc:d2", messages |-> <<>>]
    /\ ~HasEntry(histories, "doc:d2")
    /\ Len(getHistory(histories, "doc:d1")) = 20
    /\ Len(getHistory(histories, "ws:w1")) = 1

(***************************************************************************)
(* Job tracker: job ids.                                                   *)
(***************************************************************************)
\* C25 (as claimed): the jobs of the list have pairwise distinct ids, the
\* jobs restored from the store included; an id createJob assigns is
\* greater than every id in the list; and a step changes no job other than
\* the ones created in this session (the observers' jobs).
C25_JobIdsDistinct ==
    /\ [](\A a, b \in 1..Len(jobs) : a # b => jobs[a].id # jobs[b].id)
    /\ [][/\ nextJobId' # nextJobId
                => /\ nextJobId' > nextJobId
                   /\ jobs'[1].id = nextJobId'
                   /\ \A i \in 1..Len(jobs) : jobs[i].id < nextJobId'
          /\ \A i \in (nextJobId + 1)..Len(jobs) :
                jobs'[i + nextJobId' - nextJobId] = jobs[i]]_vars

(***************************************************************************)
(* Job tracker: the poll observer ends.                                    *)
(***************************************************************************)
\* the step sends a run-status query of the job
QuerySent(j) == pollInFlight'[j] = pollInFlight[j] + 1

\* C26: the poll timer of a job, once set, is eventually cleared and stays
\* cleared; a run-status query is sent only by a tick, while the timer is
\* set, and counts as an attempt of at most 120, so that there are at most
\* 120 queries and none after the timer was cleared.
C26_PollObserverEnds ==
    /\ \A j \in JobIds : interval[j] ~> ~interval[j]
    /\ [][\A j \in JobIds :
            /\ QuerySent(j)
                  => /\ interval[j]
                     /\ attempts'[j] = attempts[j] + 1
                     /\ attempts'[j] <= MAX_ATTEMPTS
            /\ attempts'[j] >= attempts[j]
            /\ (attempts[j] > 0 /\ ~interval[j]) => ~interval'[j]]_vars

\* C26 witness: all 120 queries were sent, none of them brought a verdict,
\* and the tick after the 120th attempt has cleared the timer.
C26_Witness ==
    \E j \in JobIds :
        /\ attempts[j] = MAX_ATTEMPTS + 1
        /\ ~interval[j]
        /\ pollInFlight[j] = 0
        /\ verdictBy[j] = "timeout"
        /\ "status" \in netLog[j]

(***************************************************************************)
(* Job tracker: the terminal statusText.                                   *)
(***************************************************************************)
\* C27 (as claimed): once a job is 'completed' or 'failed', no step changes
\* its statusText or its completedAt: not a stream `update`, not a poll
\* result, not a later completion.
C27_TerminalTextIsFinal ==
    [][\A j \in JobIds :
          (Exists(j) /\ Terminal(Job(j).status))
              => /\ Job(j)'.statusText = Job(j).statusText
                 /\ Job(j)'.completedAt = Job(j).completedAt]_vars

====
